---- MODULE Spec2Model ----
(***************************************************************************)
(* Model of commit/trk2dictionary/trk2dictionary.pyx:                      *)
(*   run()                     the tractogram -> dictionary conversion     *)
(*   convert_old_dictionary()  the legacy -> merged layout migration       *)
(* run() is modelled statement group by statement group (variable pc), the *)
(* migration file operation by file operation (variable cpc).              *)
(*                                                                         *)
(* The files run() reads are its environment: the tractogram may be        *)
(* missing (the code catches that), the images named by the arguments load *)
(* and answer with any of the extents and volume counts listed below.  The *)
(* native kernel answers 0 or 1.  Python's None is the string "None";      *)
(* vf_THR and min_seg_len take integer values on both sides of the values  *)
(* the code compares them with.                                            *)
(***************************************************************************)
EXTENDS Integers, Sequences, FiniteSets, TLC

(***************************************************************************)
(* Bounds of the model.                                                    *)
(***************************************************************************)
\* longest blur_radii / blur_samples list given to run()
MaxBlur == 1
MaxRadii == 2
\* largest number of entries in a legacy dictionary file
MaxLen == 2
\* number of calls of convert_old_dictionary() on the same folder
MaxCalls == 2

None == "None"

(***************************************************************************)
(* State of one call of run().                                             *)
(***************************************************************************)
VARIABLES
    args,                \* the arguments of the call
    pc,                  \* position inside run()
    outcome,             \* "running", "returned" or "raised"
    error,               \* message of the exception raised, None otherwise
    dictionary_info,     \* the metadata record built at lines 102-118
    filename_tractogram, \* local: tractogram actually loaded
    TCK_ref_image,       \* local: reference image actually used
    extension,           \* local: extension of the tractogram
    dims,                \* local: <<Nx, Ny, Nz>>
    Np,                  \* local: number of peaks per voxel
    blur,                \* local: nBlurRadii, blurRadii, blurSamples, blurWeights
    io,                  \* files read or written so far (in order)
    fs,                  \* the output folder: file name -> contents, for the files present
    kernel,              \* the calls of the native kernel: <<>> or <<its arguments>>
    ret                  \* local: what the native kernel returned: <<>> before the call, then <<ret>>

(***************************************************************************)
(* State of the calls of convert_old_dictionary() on one folder.           *)
(***************************************************************************)
VARIABLES
    dir,        \* the folder: file name -> contents (Absent if no such file)
    cpc,        \* position inside convert_old_dictionary()
    grid,       \* local: <<Nx, Ny, Nz>> read from dictionary_tdi.nii.gz
    buf,        \* local: the arrays x, y, z read from the legacy files
    calls,      \* outcomes of the completed calls, in order
    snaps       \* the folder before the first call and as each completed call left it

runVars  == <<args, pc, outcome, error, dictionary_info, filename_tractogram,
              TCK_ref_image, extension, dims, Np, blur, io, fs, kernel, ret>>
convVars == <<dir, cpc, grid, buf, calls, snaps>>
vars     == <<runVars, convVars>>

(***************************************************************************)
(* Inputs of run() and answers of its environment.                         *)
(***************************************************************************)
\* amico.lut.is_valid(ndirs): the supported values listed at line 122
is_valid(n) == (n \in {500 * k : k \in 1..20}) \/ n = 32761

NdirsValues     == {500, 501, 10000, 32761}
PathOutValues   == {None, "out"}
TractogramNames == {None, "fibers.trk", "fibers.tck", "fibers.txt"}
TrkNames        == {None, "old.trk"}
PeaksNames      == {None, "peaks.nii"}
MaskNames       == {None, "mask.nii"}
RefNames        == {None, "ref.nii"}
\* fiber_shift: a scalar, a vector of 3 elements, a vector of 2 elements
ShiftValues     == { [scalar |-> TRUE,  elems |-> <<0>>],
                     [scalar |-> FALSE, elems |-> <<0, 0, 0>>],
                     [scalar |-> FALSE, elems |-> <<0, 0>>] }
\* vf_THR and min_seg_len on either side of the values the code compares with
VfValues        == {-1, 0, 1, 2}
MinSegLenValues == {-1, 0}
BlurRadiiValues   == UNION { [1..n -> {2}] : n \in 0..MaxBlur }
BlurSamplesValues == UNION { [1..n -> {4}] : n \in 0..MaxBlur }
\* extents a .trk header can hold (16-bit signed) and extents of a reference image
TrkExtents      == {2}
NiiExtents      == {2, 65535, 65536}
\* last dimension of the peaks volume
PeaksVolumes    == {3, 4}

ArgsValues ==
    [ filename_tractogram : TractogramNames, path_out : PathOutValues,
      filename_peaks : PeaksNames, filename_mask : MaskNames,
      do_intersect : {TRUE}, fiber_shift : ShiftValues, points_to_skip : {0},
      vf_THR : VfValues, peaks_use_affine : {FALSE},
      flip_peaks : {<<FALSE, FALSE, FALSE>>}, min_seg_len : MinSegLenValues,
      gen_trk : BOOLEAN, blur_radii : BlurRadiiValues,
      blur_samples : BlurSamplesValues, blur_sigma : {1},
      filename_trk : TrkNames, TCK_ref_image : RefNames, ndirs : NdirsValues ]

\* lines 26-30: the default values of the arguments (vf_THR and min_seg_len,
\* 0.1 and 1e-3, by an in-range integer)
DefaultArgs ==
    [ filename_tractogram |-> None, path_out |-> None, filename_peaks |-> None,
      filename_mask |-> None, do_intersect |-> TRUE,
      fiber_shift |-> [scalar |-> TRUE, elems |-> <<0>>], points_to_skip |-> 0,
      vf_THR |-> 0, peaks_use_affine |-> FALSE, flip_peaks |-> <<FALSE, FALSE, FALSE>>,
      min_seg_len |-> 0, gen_trk |-> TRUE, blur_radii |-> <<>>, blur_samples |-> <<>>,
      blur_sigma |-> 1, filename_trk |-> None, TCK_ref_image |-> None, ndirs |-> 32761 ]

\* the messages of the exceptions run() raises
ErrPathOutType  == "TypeError: unsupported operand type(s) for +: 'NoneType' and 'str'"
ErrNdirs        == "Unsupported value for ndirs"
ErrFiberShift   == "fiber_shift must be a scalar or a vector with 3 elements"
ErrBlur         == "number of radii and samples must match"
ErrZeroDivision == "ZeroDivisionError: float division by zero"
ErrMinSegLen    == "min_seg_len must be >= 0"
ErrPathOut      == "Path out not defined"
ErrNoTractogram == "Tractogram file not defined"
ErrExtension    == "Invalid input file. Please enter tractogram file .trk or .tck"
ErrNotFound     == "Tractogram file not found"
ErrNoGeometry   == "TCK files do not contain information about the geometry"
ErrMaxDim       == "The max dim size is 2^16 voxels"
ErrPeaks3k      == "PEAKS dataset must have 3*k volumes"
ErrVfTHR        == "vf_THR must be between 0 and 1"

\* splitext(name)[1] for the names above
splitext(name) ==
    CASE name = "fibers.trk" -> ".trk"
      [] name = "old.trk"    -> ".trk"
      [] name = "fibers.tck" -> ".tck"
      [] OTHER               -> ".txt"

\* raise: the call ends with the exception, nothing else changes
Raise(msg) == /\ outcome' = "raised"
              /\ error' = msg
              /\ pc' = "done"

\* return: the call ends normally
Return == /\ outcome' = "returned"
          /\ pc' = "done"
          /\ UNCHANGED error

\* an empty dict, an empty folder
Empty == [k \in {} |-> None]

\* the folder (or dict) d with contents c under the name k
Put(d, k, c) == [n \in (DOMAIN d) \cup {k} |-> IF n = k THEN c ELSE d[n]]

NoBlur == [nBlurRadii |-> 0, blurRadii |-> <<>>, blurSamples |-> <<>>, blurWeights |-> <<>>]

InitRun ==
    /\ args \in ArgsValues
    /\ pc = "info"
    /\ outcome = "running"
    /\ error = None
    /\ dictionary_info = Empty
    /\ filename_tractogram = args.filename_tractogram
    /\ TCK_ref_image = args.TCK_ref_image
    /\ extension = None
    /\ dims = <<0, 0, 0>>
    /\ Np = 0
    /\ blur = NoBlur
    /\ io = <<>>
    /\ fs = Empty
    /\ kernel = <<>>
    /\ ret = <<>>

\* lines 101-118: the name of the metadata file and the metadata record
BuildInfo ==
    /\ pc = "info"
    /\ IF args.path_out = None
       THEN /\ Raise(ErrPathOutType)
            /\ UNCHANGED dictionary_info
       ELSE /\ dictionary_info' =
                 [ filename_trk     |-> args.filename_trk,
                   path_out         |-> args.path_out,
                   filename_peaks   |-> args.filename_peaks,
                   filename_mask    |-> args.filename_mask,
                   do_intersect     |-> args.do_intersect,
                   fiber_shift      |-> args.fiber_shift,
                   points_to_skip   |-> args.points_to_skip,
                   vf_THR           |-> args.vf_THR,
                   peaks_use_affine |-> args.peaks_use_affine,
                   flip_peaks       |-> args.flip_peaks,
                   min_seg_len      |-> args.min_seg_len,
                   gen_trk          |-> args.gen_trk,
                   blur_radii       |-> args.blur_radii,
                   blur_samples     |-> args.blur_samples,
                   blur_sigma       |-> args.blur_sigma,
                   ndirs            |-> args.ndirs ]
            /\ pc' = "ndirs"
            /\ UNCHANGED <<outcome, error>>
    /\ UNCHANGED <<args, filename_tractogram, TCK_ref_image, extension, dims, Np,
                   blur, io, fs, kernel, ret, convVars>>

\* lines 120-122: check the value of ndirs
CheckNdirs ==
    /\ pc = "ndirs"
    /\ IF ~ is_valid(args.ndirs)
       THEN Raise(ErrNdirs)
       ELSE pc' = "shift" /\ UNCHANGED <<outcome, error>>
    /\ UNCHANGED <<args, dictionary_info, filename_tractogram, TCK_ref_image,
                   extension, dims, Np, blur, io, fs, kernel, ret, convVars>>

\* lines 124-134: check conflicts of fiber_shift
CheckFiberShift ==
    /\ pc = "shift"
    /\ IF args.fiber_shift.scalar \/ Len(args.fiber_shift.elems) = 3
       THEN pc' = "blur" /\ UNCHANGED <<outcome, error>>
       ELSE Raise(ErrFiberShift)
    /\ UNCHANGED <<args, dictionary_info, filename_tractogram, TCK_ref_image,
                   extension, dims, Np, blur, io, fs, kernel, ret, convVars>>

\* line 168: exp( -r**2 / (2.0*sigma**2) ), kept as the exponent's fraction
GaussianWeight(r, sigma) == [num |-> r * r, den |-> 2 * sigma * sigma]

\* lines 162-163: [0.0]+blur_radii, [1]+blur_samples
WithOriginal(first, list) == <<first>> \o list

\* lines 157-190: check blur params, add the fake radius of the original segment;
\* with blur_sigma = 0 the division of line 168 raises in the first iteration
CheckBlur ==
    /\ pc = "blur"
    /\ IF Len(args.blur_radii) # Len(args.blur_samples)
       THEN /\ Raise(ErrBlur)
            /\ UNCHANGED blur
       ELSE IF 2 * args.blur_sigma * args.blur_sigma = 0
       THEN /\ Raise(ErrZeroDivision)
            /\ UNCHANGED blur
       ELSE /\ LET radii == WithOriginal(0, args.blur_radii)
               IN blur' = [ nBlurRadii  |-> Len(args.blur_radii) + 1,
                            blurRadii   |-> radii,
                            blurSamples |-> WithOriginal(1, args.blur_samples),
                            blurWeights |-> [i \in 1..Len(radii) |->
                                               GaussianWeight(radii[i], args.blur_sigma)] ]
            /\ pc' = "minseg"
            /\ UNCHANGED <<outcome, error>>
    /\ UNCHANGED <<args, dictionary_info, filename_tractogram, TCK_ref_image,
                   extension, dims, Np, io, fs, kernel, ret, convVars>>

\* lines 192-194: minimum segment length
CheckMinSegLen ==
    /\ pc = "minseg"
    /\ IF args.min_seg_len < 0
       THEN Raise(ErrMinSegLen)
       ELSE pc' = "htable" /\ UNCHANGED <<outcome, error>>
    /\ UNCHANGED <<args, dictionary_info, filename_tractogram, TCK_ref_image,
                   extension, dims, Np, blur, io, fs, kernel, ret, convVars>>

\* lines 199-200: amico.lut.load_precomputed_hash_table(ndirs)
LoadHashTable ==
    /\ pc = "htable"
    /\ io' = Append(io, "read hash table")
    /\ pc' = "paths"
    /\ UNCHANGED <<args, outcome, error, dictionary_info, filename_tractogram,
                   TCK_ref_image, extension, dims, Np, blur, fs, kernel, ret, convVars>>

\* lines 205-216: the output path and the tractogram must be defined
CheckPaths ==
    /\ pc = "paths"
    /\ IF args.path_out = None
       THEN /\ Raise(ErrPathOut)
            /\ UNCHANGED filename_tractogram
       ELSE IF args.filename_trk = None /\ filename_tractogram = None
       THEN /\ Raise(ErrNoTractogram)
            /\ UNCHANGED filename_tractogram
       ELSE /\ filename_tractogram' =
                 IF args.filename_trk # None /\ filename_tractogram = None
                 THEN args.filename_trk
                 ELSE filename_tractogram
            /\ pc' = "header"
            /\ UNCHANGED <<outcome, error>>
    /\ UNCHANGED <<args, dictionary_info, TCK_ref_image, extension, dims, Np,
                   blur, io, fs, kernel, ret, convVars>>

\* lines 218-274: the header of the tractogram and the geometry of the grid
LoadHeader ==
    /\ pc = "header"
    /\ LET ext == splitext(filename_tractogram) IN
       /\ extension' = ext
       /\ IF ext # ".trk" /\ ext # ".tck"
          THEN /\ Raise(ErrExtension)
               /\ UNCHANGED <<TCK_ref_image, dims, io>>
          ELSE \E found \in BOOLEAN :
               IF ~ found
               THEN /\ Raise(ErrNotFound)
                    /\ UNCHANGED <<TCK_ref_image, dims, io>>
               ELSE IF ext = ".trk"
               THEN /\ \E d \in TrkExtents \X TrkExtents \X TrkExtents : dims' = d
                    /\ io' = Append(io, "read tractogram header")
                    /\ pc' = "dims"
                    /\ UNCHANGED <<TCK_ref_image, outcome, error>>
               ELSE LET ref == IF TCK_ref_image # None THEN TCK_ref_image
                               ELSE IF args.filename_peaks # None THEN args.filename_peaks
                               ELSE args.filename_mask
                    IN IF ref = None
                       THEN /\ Raise(ErrNoGeometry)
                            /\ io' = Append(io, "read tractogram header")
                            /\ UNCHANGED <<TCK_ref_image, dims>>
                       ELSE /\ TCK_ref_image' = ref
                            /\ \E d \in NiiExtents \X NiiExtents \X NiiExtents : dims' = d
                            /\ io' = io \o <<"read tractogram header", "read reference image">>
                            /\ pc' = "dims"
                            /\ UNCHANGED <<outcome, error>>
    /\ UNCHANGED <<args, dictionary_info, filename_tractogram, Np, blur, fs,
                   kernel, ret, convVars>>

\* line 279: the test of the grid extent, as written
ExtentTooLarge(Nx, Ny, Nz) == Nx >= 2^16 \/ Nz >= 2^16 \/ Nz >= 2^16

\* lines 279-280: the max dim size is 2^16 voxels
CheckDims ==
    /\ pc = "dims"
    /\ IF ExtentTooLarge(dims[1], dims[2], dims[3])
       THEN Raise(ErrMaxDim)
       ELSE pc' = "mask" /\ UNCHANGED <<outcome, error>>
    /\ UNCHANGED <<args, dictionary_info, filename_tractogram, TCK_ref_image,
                   extension, dims, Np, blur, io, fs, kernel, ret, convVars>>

\* lines 298-314: white-matter mask
LoadMask ==
    /\ pc = "mask"
    /\ io' = IF args.filename_mask # None THEN Append(io, "read mask") ELSE io
    /\ pc' = "peaks"
    /\ UNCHANGED <<args, outcome, error, dictionary_info, filename_tractogram,
                   TCK_ref_image, extension, dims, Np, blur, fs, kernel, ret, convVars>>

\* line 338: the test of vf_THR, as written
VfOutOfRange(vf) == vf < 0 \/ vf > 1

\* lines 316-354: peaks file for EC contributions
LoadPeaks ==
    /\ pc = "peaks"
    /\ IF args.filename_peaks # None
       THEN \E vols \in PeaksVolumes :
            /\ io' = Append(io, "read peaks")
            /\ IF vols % 3 # 0
               THEN Raise(ErrPeaks3k) /\ UNCHANGED Np
               ELSE IF VfOutOfRange(args.vf_THR)
               THEN Raise(ErrVfTHR) /\ UNCHANGED Np
               ELSE /\ Np' = vols \div 3
                    /\ pc' = "output"
                    /\ UNCHANGED <<outcome, error>>
       ELSE /\ Np' = 0
            /\ pc' = "output"
            /\ UNCHANGED <<outcome, error, io>>
    /\ UNCHANGED <<args, dictionary_info, filename_tractogram, TCK_ref_image,
                   extension, dims, blur, fs, kernel, ret, convVars>>

\* lines 356-363: create the output folder, write the dictionary info file
WriteInfo ==
    /\ pc = "output"
    /\ fs' = Put(Put(fs, ".", "folder"), "dictionary_info.pickle", dictionary_info)
    /\ io' = Append(io, "write dictionary_info.pickle")
    /\ pc' = "kernel"
    /\ UNCHANGED <<args, outcome, error, dictionary_info, filename_tractogram,
                   TCK_ref_image, extension, dims, Np, blur, kernel, ret, convVars>>

\* the files the native kernel writes into path_out
KernelFiles == { "dictionary_IC_v.dict", "dictionary_IC_o.dict", "dictionary_IC_len.dict",
                 "dictionary_EC_v.dict", "dictionary_EC_o.dict", "dictionary_TRK_kept.dict" }

\* the folder after the kernel wrote the files of the set written
KernelOutput(folder, written) ==
    [n \in (DOMAIN folder) \cup written |-> IF n \in written THEN "data" ELSE folder[n]]

\* lines 365-374: calling actual C code
CallKernel ==
    /\ pc = "kernel"
    /\ kernel' = Append(kernel,
                   [ filename_tractogram |-> filename_tractogram,
                     Nx |-> dims[1], Ny |-> dims[2], Nz |-> dims[3],
                     min_seg_len |-> args.min_seg_len, Np |-> Np,
                     vf_THR |-> args.vf_THR, path_out |-> args.path_out,
                     nBlurRadii |-> blur.nBlurRadii, blurRadii |-> blur.blurRadii,
                     blurSamples |-> blur.blurSamples, blurWeights |-> blur.blurWeights,
                     ndirs |-> args.ndirs ])
    /\ io' = Append(io, "call kernel")
    /\ \E r \in {0, 1} :
          /\ ret' = <<r>>
          /\ IF r = 0
             THEN /\ \E written \in {{}, {"dictionary_IC_v.dict"}, KernelFiles} :
                        fs' = KernelOutput(fs, written)
                  /\ Return
             ELSE /\ fs' = KernelOutput(fs, KernelFiles)
                  /\ pc' = "gen_trk"
                  /\ UNCHANGED <<outcome, error>>
    /\ UNCHANGED <<args, dictionary_info, filename_tractogram, TCK_ref_image,
                   extension, dims, Np, blur, convVars>>

\* lines 376-391: the tractogram with only the fibers kept in the dictionary
GenTrk ==
    /\ pc = "gen_trk"
    /\ IF args.gen_trk
       THEN /\ fs' = Put(fs, "dictionary_TRK_fibers" \o extension, "data")
            /\ io' = io \o <<"read tractogram", "read dictionary_TRK_kept.dict",
                            "write dictionary_TRK_fibers">>
       ELSE UNCHANGED <<fs, io>>
    /\ pc' = "tdi"
    /\ UNCHANGED <<args, outcome, error, dictionary_info, filename_tractogram,
                   TCK_ref_image, extension, dims, Np, blur, kernel, ret, convVars>>

\* lines 393-402: save the TDI map
SaveTDI ==
    /\ pc = "tdi"
    /\ fs' = Put(fs, "dictionary_tdi.nii.gz", "data")
    /\ io' = Append(io, "write dictionary_tdi.nii.gz")
    /\ pc' = "save_mask"
    /\ UNCHANGED <<args, outcome, error, dictionary_info, filename_tractogram,
                   TCK_ref_image, extension, dims, Np, blur, kernel, ret, convVars>>

\* lines 404-408: save the MASK map; run() then returns
SaveMask ==
    /\ pc = "save_mask"
    /\ fs' = Put(fs, "dictionary_mask.nii.gz", "data")
    /\ io' = Append(io, "write dictionary_mask.nii.gz")
    /\ Return
    /\ UNCHANGED <<args, dictionary_info, filename_tractogram, TCK_ref_image,
                   extension, dims, Np, blur, kernel, ret, convVars>>

NextRun ==
    \/ BuildInfo
    \/ CheckNdirs
    \/ CheckFiberShift
    \/ CheckBlur
    \/ CheckMinSegLen
    \/ LoadHashTable
    \/ CheckPaths
    \/ LoadHeader
    \/ CheckDims
    \/ LoadMask
    \/ LoadPeaks
    \/ WriteInfo
    \/ CallKernel
    \/ GenTrk
    \/ SaveTDI
    \/ SaveMask

(***************************************************************************)
(* Unsigned 32-bit and 16-bit arithmetic of the numpy arrays.  A uint32 is *)
(* kept as its two 16-bit halves, so that no intermediate value leaves the *)
(* range of the model checker's integers.                                  *)
(***************************************************************************)
Half == 65536

\* the product of two 16-bit numbers, exactly, as a uint32
Mul16(p, q) ==
    LET t0 == (p % 256) * q
        t1 == (p \div 256) * q
        s  == t0 + (t1 % 256) * 256
    IN [hi |-> (s \div Half) + (t1 \div 256), lo |-> s % Half]

\* astype(np.uint32) of a value read as uint16 or uint8
AsUint32(n) == [hi |-> 0, lo |-> n]

\* uint32 + uint32, wrapping
Add32(a, b) ==
    LET s == a.lo + b.lo
    IN [hi |-> (a.hi + b.hi + (s \div Half)) % Half, lo |-> s % Half]

\* uint32 * uint32, wrapping
Mul32(a, b) ==
    LET low   == Mul16(a.lo, b.lo)
        cross == (Mul16(a.hi, b.lo).lo + Mul16(a.lo, b.hi).lo) % Half
    IN [hi |-> (low.hi + cross) % Half, lo |-> low.lo]

\* lines 429, 438: v = x + Nx * ( y + Ny * z ) on uint32 arrays, one element
MergeVoxel(x, y, z, Nx, Ny) ==
    Add32(AsUint32(x), Mul32(AsUint32(Nx), Add32(AsUint32(y), Mul32(AsUint32(Ny), AsUint32(z)))))

\* lines 446, 453: v = y + 181 * x on uint16 arrays, one element
MergeDirection(x, y) == (y + 181 * x) % Half

(***************************************************************************)
(* The folder convert_old_dictionary() works on.                           *)
(***************************************************************************)
TDI == "dictionary_tdi.nii.gz"

\* the four groups of files, in the order the code converts them
Groups ==
    << [kind |-> "v", merged |-> "dictionary_IC_v.dict",
        legacy |-> <<"dictionary_IC_vx.dict", "dictionary_IC_vy.dict", "dictionary_IC_vz.dict">>],
       [kind |-> "v", merged |-> "dictionary_EC_v.dict",
        legacy |-> <<"dictionary_EC_vx.dict", "dictionary_EC_vy.dict", "dictionary_EC_vz.dict">>],
       [kind |-> "o", merged |-> "dictionary_IC_o.dict",
        legacy |-> <<"dictionary_IC_ox.dict", "dictionary_IC_oy.dict">>],
       [kind |-> "o", merged |-> "dictionary_EC_o.dict",
        legacy |-> <<"dictionary_EC_ox.dict", "dictionary_EC_oy.dict">>] >>

LegacyFiles == UNION { {Groups[g].legacy[k] : k \in 1..Len(Groups[g].legacy)} : g \in 1..4 }
MergedFiles == { Groups[g].merged : g \in 1..4 }

\* entries of a legacy dictionary: IC voxel (2-byte fields), EC voxel (1-byte
\* fields), IC and EC orientation (1-byte fields)
EntrySamples ==
    { [ic |-> <<0, 0, 0>>,          ec |-> <<0, 0, 0>>,       ico |-> <<0, 0>>,     eco |-> <<0, 0>>],
      [ic |-> <<1, 1, 1>>,          ec |-> <<1, 0, 1>>,       ico |-> <<1, 180>>,   eco |-> <<255, 255>>],
      [ic |-> <<0, 0, 1024>>,       ec |-> <<255, 255, 255>>, ico |-> <<255, 255>>, eco |-> <<180, 0>>],
      [ic |-> <<2047, 2047, 1023>>, ec |-> <<0, 1, 0>>,       ico |-> <<90, 90>>,   eco |-> <<0, 180>>] }

\* shapes of the track-density image
GridShapes == { <<2, 2, 2>>, <<2048, 2048, 1024>>, <<2048, 2048, 2048>> }

InGrid(t, shape) == \A a \in 1..3 : 0 <= t[a] /\ t[a] < shape[a]

\* a folder in the legacy layout holding the given entries
LegacyFolder(shape, es) ==
    LET col(f, a) == [i \in 1..Len(es) |-> es[i][f][a]]
    IN  [ n \in LegacyFiles \cup {TDI} |->
            CASE n = TDI -> shape
              [] n = "dictionary_IC_vx.dict" -> col("ic", 1)
              [] n = "dictionary_IC_vy.dict" -> col("ic", 2)
              [] n = "dictionary_IC_vz.dict" -> col("ic", 3)
              [] n = "dictionary_EC_vx.dict" -> col("ec", 1)
              [] n = "dictionary_EC_vy.dict" -> col("ec", 2)
              [] n = "dictionary_EC_vz.dict" -> col("ec", 3)
              [] n = "dictionary_IC_ox.dict" -> col("ico", 1)
              [] n = "dictionary_IC_oy.dict" -> col("ico", 2)
              [] n = "dictionary_EC_ox.dict" -> col("eco", 1)
              [] n = "dictionary_EC_oy.dict" -> col("eco", 2) ]

\* the folder d without the files of the set gone
Without(d, gone) == [n \in (DOMAIN d) \ gone |-> d[n]]

\* a remove that leaves the file in place
KeepFile(d, name) == d

\* remove( join(path, name) )
Remove(d, name) == Without(d, {name})

\* exists( join(path, name) )
exists(d, name) == name \in DOMAIN d

Idle == [op |-> "idle", g |-> 0, k |-> 0]

ErrOldFormat == "Folder does not contain dictionary files in the old format"
ErrNoFile    == "FileNotFoundError"

InitConv ==
    /\ \E shape \in GridShapes :
       \E n \in 0..MaxLen :
       \E es \in [1..n -> {e \in EntrySamples : InGrid(e.ic, shape) /\ InGrid(e.ec, shape)}] :
       \E gone \in {{}} \cup {{f} : f \in LegacyFiles \cup {TDI}} \cup {LegacyFiles} :
          dir = Without(LegacyFolder(shape, es), gone)
    /\ cpc = Idle
    /\ grid = <<0, 0, 0>>
    /\ buf = <<>>
    /\ calls = <<>>
    /\ snaps = <<dir>>

\* the call ends with the exception msg (no raising statement changes the folder)
ConvRaise(msg) ==
    /\ calls' = Append(calls, msg)
    /\ snaps' = Append(snaps, dir)
    /\ cpc' = Idle

\* convert_old_dictionary( path ) is called
ConvCall ==
    /\ cpc.op = "idle"
    /\ Len(calls) < MaxCalls
    /\ cpc' = [op |-> "check", g |-> 0, k |-> 0]
    /\ UNCHANGED <<dir, grid, buf, calls, snaps, runVars>>

\* lines 421-422: the folder must hold a dictionary in the old format
ConvCheck ==
    /\ cpc.op = "check"
    /\ IF ~ exists(dir, "dictionary_IC_vx.dict")
       THEN ConvRaise(ErrOldFormat)
       ELSE cpc' = [op |-> "tdi", g |-> 0, k |-> 0] /\ UNCHANGED <<calls, snaps>>
    /\ UNCHANGED <<dir, grid, buf, runVars>>

\* lines 424-425: the shape of the track-density image
ConvLoadTDI ==
    /\ cpc.op = "tdi"
    /\ IF ~ exists(dir, TDI)
       THEN ConvRaise(ErrNoFile) /\ UNCHANGED grid
       ELSE /\ grid' = dir[TDI]
            /\ cpc' = [op |-> "read", g |-> 1, k |-> 0]
            /\ UNCHANGED <<calls, snaps>>
    /\ UNCHANGED <<dir, buf, runVars>>

\* lines 426-428, 435-437, 444-445, 451-452: np.fromfile of the group's legacy files
ConvRead ==
    /\ cpc.op = "read"
    /\ LET legacy == Groups[cpc.g].legacy IN
       IF \E k \in 1..Len(legacy) : ~ exists(dir, legacy[k])
       THEN ConvRaise(ErrNoFile) /\ UNCHANGED buf
       ELSE /\ buf' = [k \in 1..Len(legacy) |-> dir[legacy[k]]]
            /\ cpc' = [cpc EXCEPT !.op = "write"]
            /\ UNCHANGED <<calls, snaps>>
    /\ UNCHANGED <<dir, grid, runVars>>

\* the merged array of a group, from the arrays read
Merged(kind, arrays, shape) ==
    IF kind = "v"
    THEN [i \in 1..Len(arrays[1]) |->
            MergeVoxel(arrays[1][i], arrays[2][i], arrays[3][i], shape[1], shape[2])]
    ELSE [i \in 1..Len(arrays[1]) |-> MergeDirection(arrays[1][i], arrays[2][i])]

\* a write that creates no file
NotWritten(d, name, v) == d

\* v.tofile( join(path, name) )
tofile(d, name, v) == Put(d, name, v)

\* lines 429-430, 438-439, 446-447, 453-454: compute v and v.tofile
ConvWrite ==
    /\ cpc.op = "write"
    /\ dir' = tofile(dir, Groups[cpc.g].merged, Merged(Groups[cpc.g].kind, buf, grid))
    /\ cpc' = [cpc EXCEPT !.op = "remove", !.k = 1]
    /\ UNCHANGED <<grid, buf, calls, snaps, runVars>>

\* lines 431-433, 440-442, 448-449, 455-456: remove one legacy file of the group;
\* after the last one of the last group the call returns
ConvRemove ==
    /\ cpc.op = "remove"
    /\ LET legacy == Groups[cpc.g].legacy IN
       IF ~ exists(dir, legacy[cpc.k])
       THEN ConvRaise(ErrNoFile) /\ UNCHANGED dir
       ELSE /\ dir' = Remove(dir, legacy[cpc.k])
            /\ IF cpc.k < Len(legacy)
               THEN cpc' = [cpc EXCEPT !.k = cpc.k + 1] /\ UNCHANGED <<calls, snaps>>
               ELSE IF cpc.g < Len(Groups)
               THEN cpc' = [op |-> "read", g |-> cpc.g + 1, k |-> 0] /\ UNCHANGED <<calls, snaps>>
               ELSE /\ calls' = Append(calls, "returned")
                    /\ snaps' = Append(snaps, dir')
                    /\ cpc' = Idle
    /\ UNCHANGED <<grid, buf, runVars>>

NextConv ==
    \/ ConvCall
    \/ ConvCheck
    \/ ConvLoadTDI
    \/ ConvRead
    \/ ConvWrite
    \/ ConvRemove

(***************************************************************************)
(* The specifications: a call of run() on an empty output folder, and the  *)
(* calls of convert_old_dictionary() on a folder in the legacy layout.     *)
(***************************************************************************)
\* convert_old_dictionary() is not in use
ConvUnused ==
    /\ dir = Empty
    /\ cpc = Idle
    /\ grid = <<0, 0, 0>>
    /\ buf = <<>>
    /\ calls = <<>>
    /\ snaps = <<>>

\* run() is not in use
RunUnused ==
    /\ args = DefaultArgs
    /\ pc = "unused"
    /\ outcome = "unused"
    /\ error = None
    /\ dictionary_info = Empty
    /\ filename_tractogram = None
    /\ TCK_ref_image = None
    /\ extension = None
    /\ dims = <<0, 0, 0>>
    /\ Np = 0
    /\ blur = NoBlur
    /\ io = <<>>
    /\ fs = Empty
    /\ kernel = <<>>
    /\ ret = <<>>

Init == InitRun /\ ConvUnused
Next == NextRun
Spec == Init /\ [][Next]_vars

InitMigration == InitConv /\ RunUnused
SpecConv == InitMigration /\ [][NextConv]_vars

\* calls of run() that differ in the blur parameters (and in the arguments
\* checked before them), the tractogram being a .trk file
BlurArgsValues ==
    { [DefaultArgs EXCEPT !.filename_tractogram = "fibers.trk", !.path_out = p,
                          !.ndirs = n, !.blur_radii = r, !.blur_samples = m,
                          !.blur_sigma = sg] :
        p \in PathOutValues, n \in {500, 501},
        r \in UNION { [1..k -> {1, 2}] : k \in 0..MaxRadii },
        m \in UNION { [1..k -> {4, 8}] : k \in 0..MaxRadii },
        sg \in {0, 1, 2} }

InitBlur ==
    /\ args \in BlurArgsValues
    /\ pc = "info"
    /\ outcome = "running"
    /\ error = None
    /\ dictionary_info = Empty
    /\ filename_tractogram = args.filename_tractogram
    /\ TCK_ref_image = args.TCK_ref_image
    /\ extension = None
    /\ dims = <<0, 0, 0>>
    /\ Np = 0
    /\ blur = NoBlur
    /\ io = <<>>
    /\ fs = Empty
    /\ kernel = <<>>
    /\ ret = <<>>
    /\ ConvUnused

SpecBlur == InitBlur /\ [][Next]_vars

(***************************************************************************)
(* Properties of run(), checked under Spec.                                *)
(***************************************************************************)
Called == Len(kernel) > 0
Ended  == pc = "done"
Failed == Ended /\ (outcome = "raised" \/ ret = <<0>>)
InfoFile == "dictionary_info.pickle"

\* C1: whenever the native kernel is called, all three grid extents Nx, Ny,
\* Nz are below 2^16; a run with any extent >= 2^16 ends with an exception.
C1_ExtentsFit16Bit ==
    /\ Called => (kernel[1].Nx < 2^16 /\ kernel[1].Ny < 2^16 /\ kernel[1].Nz < 2^16)
    /\ (Ended /\ \E a \in 1..3 : dims[a] >= 2^16) => outcome = "raised"

\* the supported values of ndirs, as the specification lists them
SupportedNdirs == {500 * k : k \in 1..20} \cup {32761}

\* C2: ndirs is rejected exactly when it is outside the supported set, with
\* the configuration error, before any file is read or written and before the
\* hash table is loaded, whatever the other arguments are.
C2_NdirsCheckedFirst ==
    /\ (Ended /\ args.ndirs \notin SupportedNdirs)
          => (outcome = "raised" /\ error = ErrNdirs /\ io = <<>> /\ fs = Empty)
    /\ (error = ErrNdirs) => args.ndirs \notin SupportedNdirs

\* C3: a failed run (an exception, or the kernel reporting that the
\* dictionary was not generated) leaves no output file behind, the metadata
\* record included.
C3_FailedRunLeavesNoOutput ==
    Failed => (DOMAIN fs) \cap ({InfoFile} \cup KernelFiles) = {}

\* C4: whenever run() returns without raising, the output folder exists and
\* holds the metadata record, the track-density image and the mask.
C4_ReturnMeansMapsWritten ==
    (Ended /\ outcome = "returned")
       => {".", InfoFile, "dictionary_tdi.nii.gz", "dictionary_mask.nii.gz"} \subseteq DOMAIN fs

\* the arguments pass the configuration checks of lines 120-194
ConfigurationValid ==
    /\ args.ndirs \in SupportedNdirs
    /\ args.fiber_shift.scalar \/ Len(args.fiber_shift.elems) = 3
    /\ Len(args.blur_radii) = Len(args.blur_samples)
    /\ args.min_seg_len >= 0

\* C5: with path_out = None and otherwise valid configuration the run ends in
\* the 'Path out not defined' failure and writes no file.
C5_PathOutNotDefined ==
    (Ended /\ args.path_out = None /\ ConfigurationValid)
       => (outcome = "raised" /\ error = ErrPathOut /\ fs = Empty)

\* C6: a run with vf_THR outside [0,1] ends with an exception, peaks volume
\* or not, and the native kernel is never called with such a vf_THR.
C6_VfThrChecked ==
    /\ Called => (0 <= kernel[1].vf_THR /\ kernel[1].vf_THR <= 1)
    /\ (Ended /\ (args.vf_THR < 0 \/ args.vf_THR > 1)) => outcome = "raised"

\* the value the run used for a parameter
ValueUsed(param) ==
    CASE param = "filename_tractogram" -> filename_tractogram
      [] param = "TCK_ref_image"       -> TCK_ref_image
      [] OTHER                         -> args[param]

\* C10: the metadata record written by run() holds, for every argument of
\* run(), an entry with the value the run used.
C10_InfoHoldsEveryParameter ==
    (InfoFile \in DOMAIN fs)
       => \A param \in DOMAIN args :
             /\ param \in DOMAIN fs[InfoFile]
             /\ fs[InfoFile][param] = ValueUsed(param)

(***************************************************************************)
(* Properties of convert_old_dictionary(), checked under SpecConv.         *)
(***************************************************************************)
\* the folder holds all the legacy files and no merged file
LegacyOnly(d) == LegacyFiles \subseteq DOMAIN d /\ MergedFiles \cap DOMAIN d = {}

\* C7: a call on a folder in which some legacy file is missing raises and
\* leaves the folder exactly as it found it.
C7_MissingLegacyFileLeavesFolder ==
    \A i \in 1..Len(calls) :
       (\E f \in LegacyFiles : f \notin DOMAIN snaps[i])
          => (calls[i] # "returned" /\ snaps[i + 1] = snaps[i])

\* C8 as claimed: on a folder holding only the legacy files, the second call
\* has the same outcome and leaves the same folder as the first.
C8_SameOutcomeAndFolder ==
    (Len(calls) >= 2 /\ LegacyOnly(snaps[1]))
       => (calls[2] = calls[1] /\ snaps[3] = snaps[2])

\* C8 as amended: on a folder holding only the legacy files, the second call
\* leaves the folder exactly as the first call left it; the outcomes differ:
\* when the first call returned, the second raises the 'not in the old
\* format' error.
C8_SecondCallChangesNothing ==
    (Len(calls) >= 2 /\ LegacyOnly(snaps[1]))
       => /\ snaps[3] = snaps[2]
          /\ (calls[1] = "returned" => calls[2] = ErrOldFormat)

\* a folder with entries in every legacy file was converted, then converted again
C8_Witness ==
    /\ Len(calls) = 2
    /\ LegacyOnly(snaps[1])
    /\ Len(snaps[1]["dictionary_IC_vx.dict"]) = MaxLen
    /\ calls[1] = "returned"
    /\ MergedFiles \subseteq DOMAIN snaps[3]

\* x + Nx*(y + Ny*z) computed exactly, as three 16-bit limbs (low limb first)
ExactIndex(x, y, z, Nx, Ny) ==
    LET nyz == Mul16(Ny, z)
        a0  == (y + nyz.lo) % Half
        a1  == nyz.hi + ((y + nyz.lo) \div Half)
        p0  == Mul16(Nx, a0)
        p1  == Mul16(Nx, a1)
        l0  == x + p0.lo
        l1  == p0.hi + p1.lo + (l0 \div Half)
        l2  == p1.hi + (l1 \div Half)
    IN <<l0 % Half, l1 % Half, l2>>

\* C9: every merged voxel index stored for in-grid legacy triples equals
\* x + Nx*(y + Ny*z) computed exactly (no wrap-around modulo 2^32), and every
\* merged direction index equals oy + 181*ox.
C9_MergedIndexExact ==
    \A g \in 1..Len(Groups) :
       LET G == Groups[g] IN
       (G.merged \in DOMAIN dir /\ LegacyOnly(snaps[1]) /\ TDI \in DOMAIN snaps[1])
          => LET shape == snaps[1][TDI]
                 x == snaps[1][G.legacy[1]]
                 y == snaps[1][G.legacy[2]]
                 v == dir[G.merged]
             IN \A i \in 1..Len(x) :
                   IF G.kind = "v"
                   THEN LET z == snaps[1][G.legacy[3]] IN
                        <<v[i].lo, v[i].hi, 0>> = ExactIndex(x[i], y[i], z[i], shape[1], shape[2])
                   ELSE v[i] = y[i] + 181 * x[i]

(***************************************************************************)
(* Properties of the blur parameters of run(), checked under SpecBlur.     *)
(***************************************************************************)
\* the weight exp(-num/den) is exactly 1
IsOne(w) == w.num = 0 /\ w.den # 0

\* the configuration errors raised up to the blur check (lines 121-158)
ConfigurationErrors == {ErrNdirs, ErrFiberShift, ErrBlur}

\* C11: with blur_radii and blur_samples of different lengths the run ends
\* with a configuration error and the kernel is never called, and the 'number
\* of radii and samples must match' error is raised in no other case.
\* Whenever the kernel is called, nBlurRadii = len(blur_radii)+1 and the
\* radii, samples and weights arrays have that many entries: entry 0 is the
\* original segment (radius 0, 1 sample, weight 1), followed by the user's
\* radii and sample counts in the given order; with blur_radii = [] that
\* entry is the whole configuration.
C11_BlurConfiguration ==
    /\ (Len(args.blur_radii) # Len(args.blur_samples))
          => /\ ~ Called
             /\ Ended => (outcome = "raised" /\ error \in ConfigurationErrors)
    /\ (error = ErrBlur) => Len(args.blur_radii) # Len(args.blur_samples)
    /\ Called =>
          LET k == kernel[1]
              n == Len(args.blur_radii)
          IN /\ k.nBlurRadii = n + 1
             /\ Len(k.blurRadii) = n + 1
             /\ Len(k.blurSamples) = n + 1
             /\ Len(k.blurWeights) = n + 1
             /\ k.blurRadii[1] = 0
             /\ k.blurSamples[1] = 1
             /\ IsOne(k.blurWeights[1])
             /\ \A i \in 1..n : /\ k.blurRadii[i + 1] = args.blur_radii[i]
                                /\ k.blurSamples[i + 1] = args.blur_samples[i]
             /\ (n = 0) => (k.blurRadii = <<0>> /\ k.blurSamples = <<1>>)

(***************************************************************************)
(* Order of writing and removing in convert_old_dictionary().              *)
(***************************************************************************)
\* the legacy files of group g that the folder d holds
LegacyIn(d, g) == { Groups[g].legacy[k] : k \in 1..Len(Groups[g].legacy) } \cap DOMAIN d

\* the legacy files of group g
LegacyOf(g) == { Groups[g].legacy[k] : k \in 1..Len(Groups[g].legacy) }

\* the folder d holds the merged file of group g, computed from the legacy
\* arrays and the grid of the folder d0
HoldsMerged(d, d0, g) ==
    /\ exists(d, Groups[g].merged)
    /\ LegacyIn(d0, g) = LegacyOf(g)
    /\ exists(d0, TDI)
    /\ d[Groups[g].merged] =
          Merged(Groups[g].kind,
                 [k \in 1..Len(Groups[g].legacy) |-> d0[Groups[g].legacy[k]]], d0[TDI])

\* C12: in every state of a migration, also between two statements, every
\* group either still has each legacy file it had when the migration began
\* or has its merged file (written from those legacy files): no legacy file
\* is removed before the group's merged file is written, so a group that was
\* complete in the legacy layout is present as its complete legacy set or as
\* its merged file.  After a call that returns normally none of the ten
\* legacy files exists and all four merged files exist.
C12_MergedWrittenBeforeLegacyRemoved ==
    /\ \A g \in 1..Len(Groups) :
          \/ LegacyIn(dir, g) = LegacyIn(snaps[1], g)
          \/ HoldsMerged(dir, snaps[1], g)
    /\ \A i \in 1..Len(calls) :
          (calls[i] = "returned")
             => /\ LegacyFiles \cap DOMAIN snaps[i + 1] = {}
                /\ MergedFiles \subseteq DOMAIN snaps[i + 1]

\* a migration of a folder with entries has returned
C12_Witness ==
    /\ Len(calls) >= 1
    /\ calls[1] = "returned"
    /\ Len(snaps[1]["dictionary_IC_vx.dict"]) > 0
    /\ LegacyFiles \cap DOMAIN dir = {}

====
